---- MODULE Spec2Model ----
(***************************************************************************)
(* Model of generate_project_structure.py: a depth-first walk of a         *)
(* directory tree that accumulates structure lines and content lines and   *)
(* writes them, with an optional header and footer, to one output file.    *)
(*                                                                         *)
(* Python strings are modelled as tuples of code points, so that sorting,  *)
(* stripping, case normalisation and line splitting are computed as the    *)
(* interpreter computes them.  A location in the tree is the tuple of      *)
(* entry names leading to it from the traversal root (the root is <<>>).   *)
(***************************************************************************)
EXTENDS Integers, Sequences, FiniteSets, TLC

(***************************************************************************)
(* Configuration constants (lines 4-15).                                   *)
(***************************************************************************)
SCRIPT_FILE == <<103, 101, 110, 101, 114, 97, 116, 101, 95, 112, 114, 111, 106, 101, 99, 116, 95, 115, 116, 114, 117, 99, 116, 117, 114, 101, 46, 112, 121>>

OUTPUT_FILE == <<112, 114, 111, 106, 101, 99, 116, 95, 115, 116, 114, 117, 99, 116, 117, 114, 101, 46, 116, 120, 116>>

PROJECT_IGNORE_FILE == <<46, 112, 114, 111, 106, 101, 99, 116, 105, 103, 110, 111, 114, 101>>

PROJECT_HEADER_FILE == <<46, 112, 114, 111, 106, 101, 99, 116, 104, 101, 97, 100, 101, 114>>

PROJECT_FOOTER_FILE == <<46, 112, 114, 111, 106, 101, 99, 116, 102, 111, 111, 116, 101, 114>>

INDENT_CHAR == <<9>>

ARROW == <<45, 62>>

IGNORE_HIDDEN_FILES == FALSE

EMPTY_FILE_PLACEHOLDER == <<91, 110, 111, 116, 32, 121, 101, 116, 32, 105, 109, 112, 108, 101, 109, 101, 110, 116, 101, 100, 93>>

OMITTED_TEXT == <<91, 111, 109, 105, 116, 116, 101, 100, 32, 102, 111, 114, 32, 98, 114, 101, 118, 105, 116, 121, 93>>

MAX_FILE_SIZE == 1000000

\* The literals of lines 108, 113/116, 97, 42, 41/45 and 118.
TRUNCATED_TEXT == <<91, 70, 105, 108, 101, 32, 99, 111, 110, 116, 101, 110, 116, 32, 116, 114, 117, 110, 99, 97, 116, 101, 100, 32, 100, 117, 101, 32, 116, 111, 32, 115, 105, 122, 101, 32, 108, 105, 109, 105, 116, 97, 116, 105, 111, 110, 115, 93>>

FENCE == <<96, 96, 96>>

BLOCK_SEPARATOR == <<10, 45, 45, 45, 10>>

TITLE_TEXT == <<80, 114, 111, 106, 101, 99, 116, 32, 82, 101, 112, 111, 115, 105, 116, 111, 114, 121, 32, 83, 116, 114, 117, 99, 116, 117, 114, 101, 58, 10, 10>>

SECTION_SEPARATOR == <<10, 45, 45, 45, 10, 10>>

ERROR_PREFIX == <<91, 69, 114, 114, 111, 114, 32, 114, 101, 97, 100, 105, 110, 103, 32, 102, 105, 108, 101, 58, 32>>

\* Code points the model names.
NL == 10

SLASH == 47

BACKSLASH == 92

HASH == 35

DOT == 46

COLON == 58

SPACE == 32

(***************************************************************************)
(* String helpers: what the str methods and os.path functions do.          *)
(***************************************************************************)
RECURSIVE Repeat(_, _)
\* s * n
Repeat(s, n) == IF n <= 0 THEN <<>> ELSE s \o Repeat(s, n - 1)

RECURSIVE Flatten(_)
\* ''.join(parts)
Flatten(parts) == IF parts = <<>> THEN <<>> ELSE Head(parts) \o Flatten(Tail(parts))

\* str < str: lexicographic on code points, a proper prefix first.
RECURSIVE StrLess(_, _)
StrLess(a, b) ==
    IF b = <<>> THEN FALSE
    ELSE IF a = <<>> THEN TRUE
    ELSE IF Head(a) # Head(b) THEN Head(a) < Head(b)
    ELSE StrLess(Tail(a), Tail(b))

\* str.startswith(c) for a one-character prefix.
StartsWithChar(s, c) == Len(s) > 0 /\ s[1] = c

\* str.isspace for one code point (the whitespace str.strip removes).
IsSpace(c) == c \in {9, 10, 11, 12, 13, 28, 29, 30, 31, 32, 133, 160}

RECURSIVE LStrip(_)
LStrip(s) == IF s # <<>> /\ IsSpace(Head(s)) THEN LStrip(Tail(s)) ELSE s

RECURSIVE RStrip(_)
RStrip(s) ==
    IF s # <<>> /\ IsSpace(s[Len(s)]) THEN RStrip(SubSeq(s, 1, Len(s) - 1)) ELSE s

\* str.strip()
Strip(s) == RStrip(LStrip(s))

\* The line boundaries of str.splitlines.
IsLineBreak(c) == c \in {10, 11, 12, 13, 28, 29, 30, 133, 8232, 8233}

RECURSIVE SplitLinesFrom(_, _, _)
\* str.splitlines(): the lines without their boundaries; "\r\n" is one boundary and
\* a trailing boundary opens no empty last line.
SplitLinesFrom(s, i, cur) ==
    IF i > Len(s) THEN (IF cur = <<>> THEN <<>> ELSE <<cur>>)
    ELSE IF IsLineBreak(s[i])
         THEN LET step == IF s[i] = 13 /\ i < Len(s) /\ s[i + 1] = NL THEN 2 ELSE 1
              IN  <<cur>> \o SplitLinesFrom(s, i + step, <<>>)
         ELSE SplitLinesFrom(s, i + 1, Append(cur, s[i]))

splitlines(s) == SplitLinesFrom(s, 1, <<>>)

RECURSIVE FileLinesFrom(_, _, _)
\* Iterating a text file: the lines, each keeping its "\n"; the last line may lack it.
FileLinesFrom(s, i, cur) ==
    IF i > Len(s) THEN (IF cur = <<>> THEN <<>> ELSE <<cur>>)
    ELSE IF s[i] = NL
         THEN <<Append(cur, NL)>> \o FileLinesFrom(s, i + 1, <<>>)
         ELSE FileLinesFrom(s, i + 1, Append(cur, s[i]))

FileLines(s) == FileLinesFrom(s, 1, <<>>)

\* str.lower() on the ASCII letters the model uses.
LowerChar(c) == IF c >= 65 /\ c <= 90 THEN c + 32 ELSE c

(***************************************************************************)
(* The environment: the platform, the file system and the working          *)
(* directory.  fs maps each existing location to its node; a node records  *)
(* what the os calls report for it: its kind (os.path.isdir / isfile),     *)
(* whether os.path.getsize succeeds and what it returns, and whether       *)
(* open/read succeeds and the text read() returns.                         *)
(*                                                                         *)
(* The program: pc is the position in write_structure; stack holds one     *)
(* frame per active call of collect_structure_and_contents.                *)
(***************************************************************************)
VARIABLES os_name, fs, cwd, pc, ignore_patterns, stack, structure_lines,
          content_lines, opened, output, run, first_run, repaired

vars == <<os_name, fs, cwd, pc, ignore_patterns, stack, structure_lines,
          content_lines, opened, output, run, first_run, repaired>>

\* os.sep
sep == IF os_name = "nt" THEN BACKSLASH ELSE SLASH

\* os.path.normcase: the identity on POSIX; on Windows '/' becomes '\' and the
\* string is lowercased.
normcase(s) ==
    IF os_name = "nt"
    THEN [i \in 1..Len(s) |-> IF s[i] = SLASH THEN BACKSLASH ELSE LowerChar(s[i])]
    ELSE s

RECURSIVE relpath(_)
\* os.path.relpath(os.path.join(..., entry), root_dir) of a location below the
\* root: its names joined by os.sep.
relpath(p) ==
    IF Len(p) = 1 THEN p[1]
    ELSE relpath(SubSeq(p, 1, Len(p) - 1)) \o <<sep>> \o p[Len(p)]

\* os.path.exists, os.path.isdir, os.path.isfile
exists(p) == p \in DOMAIN fs

isdir(p) == exists(p) /\ fs[p].kind = "dir"

isfile(p) == exists(p) /\ fs[p].kind = "file"

\* The names os.listdir(d) returns, as a set.
EntryNames(d) ==
    {p[Len(p)] : p \in {q \in DOMAIN fs : Len(q) = Len(d) + 1
                                          /\ SubSeq(q, 1, Len(d)) = d}}

\* list.sort() on a list of distinct strings: ascending by code points.
RECURSIVE SortedSeq(_)
SortedSeq(S) ==
    IF S = {} THEN <<>>
    ELSE LET least == CHOOSE x \in S : \A y \in S \ {x} : StrLess(x, y)
         IN  <<least>> \o SortedSeq(S \ {least})

RECURSIVE Reverse(_)
Reverse(s) == IF s = <<>> THEN <<>> ELSE Reverse(Tail(s)) \o <<Head(s)>>

\* The orders in which os.listdir may return the names of S (the order is
\* arbitrary; the model draws from ascending, descending and a rotation).
ListingOrders(S) ==
    LET asc == SortedSeq(S)
    IN  {asc, Reverse(asc)} \cup
        (IF asc = <<>> THEN {} ELSE {Tail(asc) \o <<Head(asc)>>})

Range(s) == {s[i] : i \in 1..Len(s)}

\* Variant: the list is left in listing order.
sort_unsorted(list) == list

\* Variant: descending order.
sort_descending(list) == Reverse(SortedSeq(Range(list)))

\* list.sort() applied to a list: the result holds the same items in ascending order.
sort(list) == SortedSeq(Range(list))

(***************************************************************************)
(* load_ignore_patterns (lines 17-26) and read_optional_file (51-56).      *)
(***************************************************************************)
load_ignore_patterns(file_path) ==
    IF exists(file_path)
    THEN LET lines == FileLines(fs[file_path].content)
             kept  == {i \in 1..Len(lines) :
                          Strip(lines[i]) # <<>>
                          /\ ~StartsWithChar(Strip(lines[i]), HASH)}
         IN  {Strip(lines[i]) : i \in kept}
    ELSE {}

read_optional_file(file_path) ==
    IF exists(file_path) THEN Strip(fs[file_path].content) ELSE <<>>

(***************************************************************************)
(* any_match (lines 120-125).                                              *)
(***************************************************************************)
\* Variant: only the pattern is case-normalised.
any_match_half_normalised(path, patterns) ==
    \E pattern \in patterns : normcase(pattern) = path

any_match(path, patterns) ==
    \E pattern \in patterns : normcase(pattern) = normcase(path)

(***************************************************************************)
(* include_file_contents (lines 99-118) and collect_file_content (93-97).  *)
(***************************************************************************)
\* A file whose getsize or whose open/read raises.
Failing(node) == node.kind = "file" /\ (~node.stat_ok \/ ~node.read_ok)

\* str(e) of the OSError of a failed os.path.getsize and of a failed open/read;
\* the text is the platform's, the model fixes one per kind of failure.
STAT_ERROR_TEXT == <<91, 69, 114, 114, 110, 111, 32, 50, 93>>

READ_ERROR_TEXT == <<91, 69, 114, 114, 110, 111, 32, 49, 51, 93>>

\* Line 118.
ErrorLine(e) == ERROR_PREFIX \o e \o <<93>>

\* Variant: the ignore status is tested before the size.
ContentBranch_ignore_first(node, is_ignored) ==
    IF ~node.stat_ok THEN "stat_error"
    ELSE IF is_ignored THEN "omitted"
    ELSE IF node.size = 0 THEN "empty"
    ELSE IF node.size > MAX_FILE_SIZE THEN "truncated"
    ELSE "read"

\* Variant: the size limit is tested before the ignore status.
ContentBranch_size_first(node, is_ignored) ==
    IF ~node.stat_ok THEN "stat_error"
    ELSE IF node.size = 0 THEN "empty"
    ELSE IF node.size > MAX_FILE_SIZE THEN "truncated"
    ELSE IF is_ignored THEN "omitted"
    ELSE "read"

\* Variant: a file of exactly the maximum size counts as oversized.
ContentBranch_inclusive(node, is_ignored) ==
    IF ~node.stat_ok THEN "stat_error"
    ELSE IF node.size = 0 THEN "empty"
    ELSE IF is_ignored THEN "omitted"
    ELSE IF node.size >= MAX_FILE_SIZE THEN "truncated"
    ELSE "read"

\* The branch of the try block a file takes: "stat_error" when os.path.getsize raises,
\* else the if/elif chain of lines 103-109.
ContentBranch(node, is_ignored) ==
    IF ~node.stat_ok THEN "stat_error"
    ELSE IF node.size = 0 THEN "empty"
    ELSE IF is_ignored THEN "omitted"
    ELSE IF node.size > MAX_FILE_SIZE THEN "truncated"
    ELSE "read"

\* Whether the call reaches open() of line 110.
opens_file(node, is_ignored) == ContentBranch(node, is_ignored) = "read"

\* Variant: the opening fence is appended before the file is opened and read.
include_file_contents_fence_first(node, is_ignored) ==
    LET branch == ContentBranch(node, is_ignored)
        fence  == IF ~is_ignored THEN <<FENCE>> ELSE <<>>
    IN  CASE branch = "stat_error" -> <<ErrorLine(STAT_ERROR_TEXT)>>
          [] branch = "empty"      -> <<EMPTY_FILE_PLACEHOLDER>>
          [] branch = "omitted"    -> <<OMITTED_TEXT>>
          [] branch = "truncated"  -> <<TRUNCATED_TEXT>>
          [] OTHER -> IF node.read_ok
                      THEN fence \o splitlines(node.content) \o fence
                      ELSE fence \o <<ErrorLine(READ_ERROR_TEXT)>>

\* The lines the call appends to content_lines.
include_file_contents(node, is_ignored) ==
    LET branch == ContentBranch(node, is_ignored)
        fence  == IF ~is_ignored THEN <<FENCE>> ELSE <<>>
    IN  CASE branch = "stat_error" -> <<ErrorLine(STAT_ERROR_TEXT)>>
          [] branch = "empty"      -> <<EMPTY_FILE_PLACEHOLDER>>
          [] branch = "omitted"    -> <<OMITTED_TEXT>>
          [] branch = "truncated"  -> <<TRUNCATED_TEXT>>
          [] OTHER -> IF node.read_ok
                      THEN fence \o splitlines(node.content) \o fence
                      ELSE <<ErrorLine(READ_ERROR_TEXT)>>

\* str.replace('/', os.sep)
ReplaceSlash(s) == [i \in 1..Len(s) |-> IF s[i] = SLASH THEN sep ELSE s[i]]

\* Line 95: the label line of a block.
LabelLine(relative_file_path) == ReplaceSlash(relative_file_path) \o <<COLON, NL>>

\* Variant: the separator is skipped for a file that could not be read.
collect_file_content_open_on_error(node, relative_file_path, is_ignored) ==
    <<LabelLine(relative_file_path)>>
        \o include_file_contents(node, is_ignored)
        \o (IF Failing(node) THEN <<>> ELSE <<BLOCK_SEPARATOR>>)

\* The lines collect_file_content appends for one file.
collect_file_content(node, relative_file_path, is_ignored) ==
    <<LabelLine(relative_file_path)>>
        \o include_file_contents(node, is_ignored)
        \o <<BLOCK_SEPARATOR>>

(***************************************************************************)
(* collect_structure_and_contents (lines 58-91), one frame per call.       *)
(***************************************************************************)
\* INDENT_CHAR * indent_level + ARROW + ' ' + text
StructureLine(indent_level, text) ==
    Repeat(INDENT_CHAR, indent_level) \o ARROW \o <<SPACE>> \o text

\* Variant: the output file's name is not among them.
ReservedNames_without_output ==
    {SCRIPT_FILE, PROJECT_IGNORE_FILE, PROJECT_HEADER_FILE, PROJECT_FOOTER_FILE}

\* The names line 69 keeps out of the files list.
ReservedNames ==
    {SCRIPT_FILE, OUTPUT_FILE, PROJECT_IGNORE_FILE, PROJECT_HEADER_FILE,
     PROJECT_FOOTER_FILE}

\* Line 61.
FilterHidden(entries) ==
    SelectSeq(entries, LAMBDA e : ~(IGNORE_HIDDEN_FILES /\ StartsWithChar(e, DOT)))

\* Lines 65-68: the entries that are directories, in listing order.
PartitionDirs(current_dir, entries) ==
    SelectSeq(entries, LAMBDA e : isdir(current_dir \o <<e>>))

\* Variant: every file is kept.
PartitionFiles_keep_reserved(current_dir, entries) ==
    SelectSeq(entries, LAMBDA e : ~isdir(current_dir \o <<e>>)
                                  /\ isfile(current_dir \o <<e>>))

\* Lines 69-70: the entries that are files and bear no reserved name.
PartitionFiles(current_dir, entries) ==
    SelectSeq(entries, LAMBDA e : ~isdir(current_dir \o <<e>>)
                                  /\ isfile(current_dir \o <<e>>)
                                  /\ e \notin ReservedNames)

\* A call that has not yet run line 60.
NewFrame(current_dir, indent_level) ==
    [dir |-> current_dir, indent |-> indent_level, listed |-> FALSE,
     dirs |-> <<>>, files |-> <<>>, di |-> 1, fi |-> 1]

Top == stack[Len(stack)]

SetTop(frame) == [stack EXCEPT ![Len(stack)] = frame]

Collecting == pc = "collect" /\ stack # <<>>

env == <<os_name, fs, cwd, run, first_run, repaired>>

\* write_structure, lines 30-34: load the patterns and call the collector on the root.
Begin ==
    /\ pc = "start"
    /\ ignore_patterns' = load_ignore_patterns(<<PROJECT_IGNORE_FILE>>)
    /\ structure_lines' = <<>>
    /\ content_lines' = <<>>
    /\ stack' = <<NewFrame(<<>>, 0)>>
    /\ opened' = {}
    /\ pc' = "collect"
    /\ UNCHANGED <<env, output>>

\* Lines 60-73: list, filter, partition and sort.
ListDir ==
    /\ Collecting
    /\ ~Top.listed
    /\ \E listing \in ListingOrders(EntryNames(Top.dir)) :
         LET entries == FilterHidden(listing)
         IN  stack' = SetTop([Top EXCEPT !.listed = TRUE,
                                         !.dirs = sort(PartitionDirs(Top.dir, entries)),
                                         !.files = sort(PartitionFiles(Top.dir, entries))])
    /\ UNCHANGED <<env, pc, ignore_patterns, structure_lines, content_lines,
                   opened, output>>

\* Lines 76-81: one turn of the directory loop, for a directory a pattern matches.
DirIgnored ==
    /\ Collecting
    /\ Top.listed
    /\ Top.di <= Len(Top.dirs)
    /\ LET dir_entry == Top.dirs[Top.di]
           dir_path  == Top.dir \o <<dir_entry>>
       IN  /\ any_match(relpath(dir_path), ignore_patterns)
           /\ structure_lines' = structure_lines
                  \o <<StructureLine(Top.indent, dir_entry),
                       StructureLine(Top.indent + 1, OMITTED_TEXT)>>
           /\ stack' = SetTop([Top EXCEPT !.di = @ + 1])
    /\ UNCHANGED <<env, pc, ignore_patterns, content_lines, opened, output>>

\* Lines 76-79, 82-84: one turn of the directory loop, entering the directory.
DirRecurse ==
    /\ Collecting
    /\ Top.listed
    /\ Top.di <= Len(Top.dirs)
    /\ LET dir_entry == Top.dirs[Top.di]
           dir_path  == Top.dir \o <<dir_entry>>
       IN  /\ ~any_match(relpath(dir_path), ignore_patterns)
           /\ structure_lines' = Append(structure_lines,
                                        StructureLine(Top.indent, dir_entry))
           /\ stack' = Append(SetTop([Top EXCEPT !.di = @ + 1]),
                              NewFrame(dir_path, Top.indent + 1))
    /\ UNCHANGED <<env, pc, ignore_patterns, content_lines, opened, output>>

\* Lines 87-91 with collect_file_content and include_file_contents: one turn of the
\* file loop.
FileEntry ==
    /\ Collecting
    /\ Top.listed
    /\ Top.di > Len(Top.dirs)
    /\ Top.fi <= Len(Top.files)
    /\ LET file_entry == Top.files[Top.fi]
           file_path  == Top.dir \o <<file_entry>>
           relative_file_path == relpath(file_path)
           is_ignored == any_match(relative_file_path, ignore_patterns)
       IN  /\ structure_lines' = Append(structure_lines,
                                        StructureLine(Top.indent, file_entry))
           /\ content_lines' = content_lines
                  \o collect_file_content(fs[file_path], relative_file_path, is_ignored)
           /\ opened' = IF opens_file(fs[file_path], is_ignored)
                        THEN opened \cup {file_path} ELSE opened
           /\ stack' = SetTop([Top EXCEPT !.fi = @ + 1])
    /\ UNCHANGED <<env, pc, ignore_patterns, output>>

\* The call returns once both loops are done.
Return ==
    /\ Collecting
    /\ Top.listed
    /\ Top.di > Len(Top.dirs)
    /\ Top.fi > Len(Top.files)
    /\ stack' = SubSeq(stack, 1, Len(stack) - 1)
    /\ UNCHANGED <<env, pc, ignore_patterns, structure_lines, content_lines,
                   opened, output>>

(***************************************************************************)
(* write_structure, lines 36-49: read the optional header and footer and   *)
(* write the output file.                                                  *)
(***************************************************************************)
HEADER_SEPARATOR == <<10, 10, 45, 45, 45, 10, 10>>

\* '\n'.join-like: every line followed by '\n' (lines 43-44, 46-47).
WriteLines(lines) == Flatten([i \in 1..Len(lines) |-> lines[i] \o <<NL>>])

OutputText(header_content, footer_content) ==
    (IF header_content # <<>> THEN header_content \o HEADER_SEPARATOR ELSE <<>>)
        \o TITLE_TEXT
        \o WriteLines(structure_lines)
        \o SECTION_SEPARATOR
        \o WriteLines(content_lines)
        \o (IF footer_content # <<>> THEN footer_content \o <<NL>> ELSE <<>>)

FileNode(stat_ok, size, read_ok, content) ==
    [kind |-> "file", stat_ok |-> stat_ok, size |-> size, read_ok |-> read_ok,
     content |-> content]

DirNode == [kind |-> "dir", stat_ok |-> TRUE, size |-> 0, read_ok |-> TRUE,
            content |-> <<>>]

\* open(output_file, 'w') resolves the relative name against the working directory.
OutputPath == cwd \o <<OUTPUT_FILE>>

WriteOutput ==
    /\ pc = "collect"
    /\ stack = <<>>
    /\ ~isdir(OutputPath)
    /\ LET text == OutputText(read_optional_file(<<PROJECT_HEADER_FILE>>),
                              read_optional_file(<<PROJECT_FOOTER_FILE>>))
       IN  /\ output' = text
           /\ fs' = [p \in DOMAIN fs \cup {OutputPath} |->
                        IF p = OutputPath THEN FileNode(TRUE, Len(text), TRUE, text)
                        ELSE fs[p]]
    /\ pc' = "done"
    /\ UNCHANGED <<os_name, cwd, run, first_run, repaired, ignore_patterns, stack,
                   structure_lines, content_lines, opened>>

\* open(output_file, 'w') raises when the name is a directory: nothing catches it.
AbortWrite ==
    /\ pc = "collect"
    /\ stack = <<>>
    /\ isdir(OutputPath)
    /\ pc' = "aborted"
    /\ UNCHANGED <<env, ignore_patterns, stack, structure_lines, content_lines,
                   opened, output>>

(***************************************************************************)
(* A second run of the tool over the tree the first run left: unchanged,   *)
(* or with the files whose getsize or read failed now readable.            *)
(***************************************************************************)
Snapshot ==
    [structure_lines |-> structure_lines, content_lines |-> content_lines,
     output |-> output]

Rerun ==
    /\ pc = "done"
    /\ run = 1
    /\ run' = 2
    /\ first_run' = Snapshot
    /\ pc' = "start"
    /\ structure_lines' = <<>>
    /\ content_lines' = <<>>
    /\ opened' = {}
    /\ output' = <<>>
    /\ UNCHANGED <<os_name, fs, cwd, repaired, ignore_patterns, stack>>

RerunRepaired ==
    /\ pc = "done"
    /\ run = 1
    /\ \E p \in DOMAIN fs : Failing(fs[p])
    /\ fs' = [p \in DOMAIN fs |->
                 IF Failing(fs[p]) THEN [fs[p] EXCEPT !.stat_ok = TRUE, !.read_ok = TRUE]
                 ELSE fs[p]]
    /\ repaired' = TRUE
    /\ run' = 2
    /\ first_run' = Snapshot
    /\ pc' = "start"
    /\ structure_lines' = <<>>
    /\ content_lines' = <<>>
    /\ opened' = {}
    /\ output' = <<>>
    /\ UNCHANGED <<os_name, cwd, ignore_patterns, stack>>

(***************************************************************************)
(* The trees the model walks.                                              *)
(***************************************************************************)
\* Bounds of the model: the entries of a tree besides the tool's own files, and
\* the depth of the deepest entry.
MaxEntries == 3

MaxDepth == 3

\* Pattern lines in the ignore file.
MaxPatterns == 1

NAME_UPPER == <<66>>

NAME_LOWER == <<97>>

\* Entry names: 'B' sorts before 'a' by code point; the output file's name is one
\* of the reserved names.
Names == {NAME_UPPER, NAME_LOWER, OUTPUT_FILE}

SMALL_TEXT == <<104, 105>>

LINES_TEXT == <<97, 10, 10, 98, 10>>

\* The files of the model: empty, small, getsize failing, open/read failing, of
\* exactly the maximum size, and one byte over it.
FileVariants ==
    {FileNode(TRUE, 0, TRUE, <<>>),
     FileNode(TRUE, Len(SMALL_TEXT), TRUE, SMALL_TEXT),
     FileNode(FALSE, Len(SMALL_TEXT), TRUE, SMALL_TEXT),
     FileNode(TRUE, Len(SMALL_TEXT), FALSE, SMALL_TEXT),
     FileNode(TRUE, MAX_FILE_SIZE, TRUE, LINES_TEXT),
     FileNode(TRUE, MAX_FILE_SIZE + 1, TRUE, LINES_TEXT)}

NodeVariants == FileVariants \cup {DirNode}

EmptyTree == [p \in {} |-> DirNode]

\* Where tree t can take one more entry.
FreeSlots(t) ==
    {d \o <<n>> : d \in {<<>>} \cup {q \in DOMAIN t : t[q].kind = "dir"}, n \in Names}
        \ DOMAIN t

Extend(t, p, node) == [q \in DOMAIN t \cup {p} |-> IF q = p THEN node ELSE t[q]]

RECURSIVE TreesOfSize(_)
TreesOfSize(n) ==
    IF n = 0 THEN {EmptyTree}
    ELSE UNION {{Extend(t, p, node) :
                    p \in {q \in FreeSlots(t) : Len(q) <= MaxDepth},
                    node \in NodeVariants} : t \in TreesOfSize(n - 1)}

UserTrees == UNION {TreesOfSize(n) : n \in 0..MaxEntries}

\* The script lies in the traversal root (START_DIR is its directory).
SCRIPT_TEXT == <<105, 109, 112, 111, 114, 116, 32, 111, 115, 10>>

ScriptEntry == [p \in {<<SCRIPT_FILE>>} |->
                   FileNode(TRUE, Len(SCRIPT_TEXT), TRUE, SCRIPT_TEXT)]

\* A pattern as a user writes it for location p: its names joined by '/'.
RECURSIVE PosixPath(_)
PosixPath(p) ==
    IF Len(p) = 1 THEN p[1]
    ELSE PosixPath(SubSeq(p, 1, Len(p) - 1)) \o <<SLASH>> \o p[Len(p)]

LowerStr(s) == [i \in 1..Len(s) |-> LowerChar(s[i])]

PatternTexts(p) == {PosixPath(p), LowerStr(PosixPath(p))}

COMMENT_LINE == <<35, 32, 105, 103, 110, 111, 114, 101, 10>>

\* An ignore file: a comment, a blank line, then each pattern padded with blanks.
IgnoreText(patterns) ==
    COMMENT_LINE \o <<NL>>
        \o Flatten([i \in 1..Len(patterns) |->
                       <<SPACE>> \o patterns[i] \o <<SPACE, NL>>])

RECURSIVE PatternLists(_, _)
PatternLists(t, n) ==
    IF n = 0 THEN {<<>>}
    ELSE LET shorter == PatternLists(t, n - 1)
         IN  shorter \cup
             {Append(l, x) : l \in {m \in shorter : Len(m) = n - 1},
                             x \in UNION {PatternTexts(p) : p \in DOMAIN t}}

TextFile(text) == FileNode(TRUE, Len(text), TRUE, text)

IgnoreEntries(t) ==
    {EmptyTree} \cup
    {[p \in {<<PROJECT_IGNORE_FILE>>} |-> TextFile(IgnoreText(l))] :
        l \in PatternLists(t, MaxPatterns) \ {<<>>}}

HEADER_TEXT == <<32, 72, 10>>

FOOTER_TEXT == <<70, 10, 10>>

NoBanner == EmptyTree

HeaderOnly == [p \in {<<PROJECT_HEADER_FILE>>} |-> TextFile(HEADER_TEXT)]

HeaderAndFooter ==
    [p \in {<<PROJECT_HEADER_FILE>>, <<PROJECT_FOOTER_FILE>>} |->
        IF p = <<PROJECT_HEADER_FILE>> THEN TextFile(HEADER_TEXT)
        ELSE TextFile(FOOTER_TEXT)]

\* '..': the working directory of a run started from outside the tree.
PARENT_DIR == <<46, 46>>

\* The installations the model runs: the platform, the working directory (the
\* traversal root or its parent) and the banner files present.
Deployments ==
    {[os_name |-> "posix", cwd |-> <<>>, banners |-> NoBanner],
     [os_name |-> "posix", cwd |-> <<PARENT_DIR>>, banners |-> HeaderAndFooter],
     [os_name |-> "nt", cwd |-> <<>>, banners |-> HeaderAndFooter],
     [os_name |-> "nt", cwd |-> <<PARENT_DIR>>, banners |-> HeaderOnly]}

Merge(f, g) == [p \in DOMAIN f \cup DOMAIN g |-> IF p \in DOMAIN f THEN f[p] ELSE g[p]]

InitProgram ==
    /\ pc = "start"
    /\ ignore_patterns = {}
    /\ stack = <<>>
    /\ structure_lines = <<>>
    /\ content_lines = <<>>
    /\ opened = {}
    /\ output = <<>>
    /\ run = 1
    /\ first_run = [structure_lines |-> <<>>, content_lines |-> <<>>, output |-> <<>>]
    /\ repaired = FALSE

InitBounded ==
    /\ \E d \in Deployments, t \in UserTrees :
          \E ign \in IgnoreEntries(t) :
             /\ os_name = d.os_name
             /\ cwd = d.cwd
             /\ fs = Merge(Merge(Merge(t, ScriptEntry), ign), d.banners)
    /\ InitProgram

\* The tree of the round-trip scenario: a.txt ("hi"), empty b.txt, c.txt ("secret"),
\* sub/d.txt ("world"), and an ignore file naming c.txt.
A_TXT == <<97, 46, 116, 120, 116>>

B_TXT == <<98, 46, 116, 120, 116>>

C_TXT == <<99, 46, 116, 120, 116>>

D_TXT == <<100, 46, 116, 120, 116>>

SUB == <<115, 117, 98>>

HI_TEXT == <<104, 105>>

SECRET_TEXT == <<115, 101, 99, 114, 101, 116>>

WORLD_TEXT == <<119, 111, 114, 108, 100>>

ScenarioTree ==
    [p \in {<<A_TXT>>, <<B_TXT>>, <<C_TXT>>, <<SUB>>, <<SUB, D_TXT>>} |->
        CASE p = <<A_TXT>> -> TextFile(HI_TEXT)
          [] p = <<B_TXT>> -> TextFile(<<>>)
          [] p = <<C_TXT>> -> TextFile(SECRET_TEXT)
          [] p = <<SUB>> -> DirNode
          [] OTHER -> TextFile(WORLD_TEXT)]

ScenarioIgnore ==
    [p \in {<<PROJECT_IGNORE_FILE>>} |-> TextFile(IgnoreText(<<C_TXT>>))]

InitScenario ==
    /\ os_name = "posix"
    /\ cwd \in {<<>>, <<PARENT_DIR>>}
    /\ fs = Merge(Merge(ScenarioTree, ScriptEntry), ScenarioIgnore)
    /\ InitProgram

Init == InitBounded \/ InitScenario

Next ==
    \/ Begin
    \/ ListDir
    \/ DirIgnored
    \/ DirRecurse
    \/ FileEntry
    \/ Return
    \/ WriteOutput
    \/ AbortWrite
    \/ Rerun
    \/ RerunRepaired

Spec == Init /\ [][Next]_vars

(***************************************************************************)
(* Reading the two lists back: the entry a structure line stands for, and  *)
(* the blocks of the content list.                                         *)
(***************************************************************************)
RECURSIVE IndentOf(_)
\* The number of indent units a structure line starts with.
IndentOf(line) ==
    IF line # <<>> /\ <<Head(line)>> = INDENT_CHAR THEN 1 + IndentOf(Tail(line)) ELSE 0

\* The text after the indent, the arrow and the blank.
TextOf(line) == SubSeq(line, IndentOf(line) + Len(ARROW) + 2, Len(line))

SetMax(S) == CHOOSE x \in S : \A y \in S : y <= x

RECURSIVE EntryAt(_)
\* The location line i stands for: its text, below the location of the nearest
\* earlier line one indent unit to the left.
EntryAt(i) ==
    LET k     == IndentOf(structure_lines[i])
        above == {j \in 1..(i - 1) : IndentOf(structure_lines[j]) = k - 1}
    IN  IF k = 0 THEN <<TextOf(structure_lines[i])>>
        ELSE IF above = {} THEN <<<<>>, TextOf(structure_lines[i])>>
        ELSE EntryAt(SetMax(above)) \o <<TextOf(structure_lines[i])>>

StructureIndices == 1..Len(structure_lines)

\* p lies strictly below directory d.
Below(p, d) == Len(p) > Len(d) /\ SubSeq(p, 1, Len(d)) = d

\* The lines that stand for files and for directories of the tree.
FileLineIndices == {i \in StructureIndices : isfile(EntryAt(i))}

DirLineIndices == {i \in StructureIndices : isdir(EntryAt(i))}

RECURSIVE SplitBlocks(_, _, _)
\* The content list cut after every separator line: each piece is a block with its
\* first line as label and the lines between as body; a piece with no separator
\* after it is not closed.
SplitBlocks(lines, i, cur) ==
    IF i > Len(lines)
    THEN IF cur = <<>> THEN <<>>
         ELSE <<[label |-> Head(cur), body |-> Tail(cur), closed |-> FALSE]>>
    ELSE IF lines[i] = BLOCK_SEPARATOR
         THEN <<[label  |-> IF cur = <<>> THEN <<>> ELSE Head(cur),
                 body   |-> IF cur = <<>> THEN <<>> ELSE Tail(cur),
                 closed |-> TRUE]>> \o SplitBlocks(lines, i + 1, <<>>)
         ELSE SplitBlocks(lines, i + 1, Append(cur, lines[i]))

Blocks(lines) == SplitBlocks(lines, 1, <<>>)

\* The label line of the block of the file at p: its root-relative path, ':', '\n'.
ExpectedLabel(p) == relpath(p) \o <<COLON, NL>>

\* The positions of the blocks labelled for p.
BlockIndices(lines, p) ==
    {k \in 1..Len(Blocks(lines)) : Blocks(lines)[k].label = ExpectedLabel(p)}

\* The bodies of the blocks labelled for p.
Bodies(p) == {Blocks(content_lines)[k].body : k \in BlockIndices(content_lines, p)}

\* The files that have a structure line.
ListedFiles == {EntryAt(i) : i \in FileLineIndices}

\* The root-relative path of p is one of the loaded patterns.
PatternNames(p) == relpath(p) \in ignore_patterns

(***************************************************************************)
(* C1: a directory whose root-relative path equals an ignore pattern has   *)
(* its name line at its indent, the omission marker one indent deeper on   *)
(* the very next line, no frame of the collector at or below it, and no    *)
(* other structure line and no content block for anything below it.        *)
(***************************************************************************)
IgnoredDirLines == {i \in DirLineIndices : PatternNames(EntryAt(i))}

C1_IgnoredDirectoryOmitted ==
    \A i \in IgnoredDirLines :
        LET D == EntryAt(i)
        IN  /\ structure_lines[i] = StructureLine(Len(D) - 1, D[Len(D)])
            /\ i < Len(structure_lines)
            /\ structure_lines[i + 1] = StructureLine(Len(D), OMITTED_TEXT)
            /\ \A j \in StructureIndices : Below(EntryAt(j), D) => j = i + 1
            /\ \A p \in DOMAIN fs : Below(p, D) => BlockIndices(content_lines, p) = {}
            /\ \A f \in 1..Len(stack) : stack[f].dir # D /\ ~Below(stack[f].dir, D)

C1_Witness ==
    /\ pc = "done"
    /\ \E i \in IgnoredDirLines :
          /\ \E p \in DOMAIN fs : Below(p, EntryAt(i)) /\ isfile(p)
          /\ i + 1 < Len(structure_lines)

(***************************************************************************)
(* C2: the block of a listed file of size 0 has the empty-file placeholder *)
(* as its whole body, whether or not a pattern names the file.             *)
(***************************************************************************)
HasSize(p) == fs[p].stat_ok

C2_EmptyFilePlaceholder ==
    \A p \in ListedFiles :
        (HasSize(p) /\ fs[p].size = 0) => Bodies(p) = {<<EMPTY_FILE_PLACEHOLDER>>}

C2_Witness ==
    /\ pc = "done"
    /\ \E p \in ListedFiles : HasSize(p) /\ fs[p].size = 0 /\ PatternNames(p)
    /\ \E p \in ListedFiles : HasSize(p) /\ fs[p].size = 0 /\ ~PatternNames(p)

(***************************************************************************)
(* C3: the block of a listed non-empty file whose root-relative path       *)
(* equals a pattern has the omission placeholder as its whole body, under  *)
(* and over the maximum size; the file has its structure line.             *)
(***************************************************************************)
C3_IgnoredFileOmitted ==
    \A p \in DOMAIN fs :
        (/\ isfile(p)
         /\ HasSize(p) /\ fs[p].size # 0
         /\ PatternNames(p)
         /\ (p \in ListedFiles \/ BlockIndices(content_lines, p) # {}))
        => /\ Bodies(p) = {<<OMITTED_TEXT>>}
           /\ \E i \in FileLineIndices :
                 /\ EntryAt(i) = p
                 /\ structure_lines[i] = StructureLine(Len(p) - 1, p[Len(p)])
           /\ p \notin opened

C3_Witness ==
    /\ pc = "done"
    /\ \E p \in ListedFiles :
          HasSize(p) /\ PatternNames(p) /\ fs[p].size > MAX_FILE_SIZE

(***************************************************************************)
(* C4: the block of a listed file that no pattern matches and whose size   *)
(* exceeds MAX_FILE_SIZE has the truncation notice as its whole body and   *)
(* the file is never opened; a file of exactly MAX_FILE_SIZE bytes is      *)
(* opened and gets no truncation notice.                                   *)
(***************************************************************************)
NotIgnored(p) == ~any_match(relpath(p), ignore_patterns)

C4_OversizedFileTruncated ==
    \A p \in ListedFiles :
        (HasSize(p) /\ NotIgnored(p)) =>
            /\ fs[p].size > MAX_FILE_SIZE
                  => Bodies(p) = {<<TRUNCATED_TEXT>>} /\ p \notin opened
            /\ fs[p].size = MAX_FILE_SIZE
                  => <<TRUNCATED_TEXT>> \notin Bodies(p) /\ p \in opened

C4_Witness ==
    /\ pc = "done"
    /\ \E p \in ListedFiles :
          HasSize(p) /\ NotIgnored(p) /\ fs[p].size = MAX_FILE_SIZE + 1
    /\ \E p \in ListedFiles :
          HasSize(p) /\ NotIgnored(p) /\ fs[p].size = MAX_FILE_SIZE

(***************************************************************************)
(* C5: among the entries of one directory, every directory's line, and     *)
(* every line and block of its subtree, precedes every file's line and     *)
(* block; directories are in ascending name order among themselves and so  *)
(* are files.                                                              *)
(***************************************************************************)
Siblings(p, q) ==
    /\ p # q
    /\ Len(p) = Len(q)
    /\ SubSeq(p, 1, Len(p) - 1) = SubSeq(q, 1, Len(q) - 1)

BlocksBefore(p, q) ==
    \A a \in BlockIndices(content_lines, p), b \in BlockIndices(content_lines, q) : a < b

C5_DirectoriesBeforeFilesSorted ==
    \A i, j \in DirLineIndices \cup FileLineIndices :
        LET X == EntryAt(i)
            Y == EntryAt(j)
        IN  Siblings(X, Y) =>
              /\ (isdir(X) /\ isfile(Y)) =>
                    /\ i < j
                    /\ \A k \in StructureIndices : Below(EntryAt(k), X) => k < j
                    /\ \A p \in DOMAIN fs : Below(p, X) => BlocksBefore(p, Y)
              /\ (isdir(X) /\ isdir(Y) /\ StrLess(X[Len(X)], Y[Len(Y)])) => i < j
              /\ (isfile(X) /\ isfile(Y) /\ StrLess(X[Len(X)], Y[Len(Y)])) =>
                    i < j /\ BlocksBefore(X, Y)

C5_Witness ==
    /\ pc = "done"
    /\ \E i, j \in DirLineIndices \cup FileLineIndices :
          /\ Siblings(EntryAt(i), EntryAt(j))
          /\ isdir(EntryAt(i)) /\ isfile(EntryAt(j))
          /\ StrLess(TextOf(structure_lines[j]), TextOf(structure_lines[i]))
          /\ \E p \in ListedFiles : Below(p, EntryAt(i))

(***************************************************************************)
(* C6: after a complete traversal the content list is a sequence of closed *)
(* blocks, one per file structure line and in the order of those lines,    *)
(* each opening with the label of its file and closing with the separator. *)
(***************************************************************************)
TraversalComplete == pc \in {"done", "aborted"} \/ (pc = "collect" /\ stack = <<>>)

\* The position of file line i among the file lines.
FileRank(i) == Cardinality({j \in FileLineIndices : j <= i})

C6_OneFramedBlockPerFile ==
    TraversalComplete =>
        LET B == Blocks(content_lines)
        IN  /\ Len(B) = Cardinality(FileLineIndices)
            /\ \A k \in 1..Len(B) : B[k].closed
            /\ \A i \in FileLineIndices :
                  /\ FileRank(i) <= Len(B)
                  /\ B[FileRank(i)].label = ExpectedLabel(EntryAt(i))
                  /\ BlockIndices(content_lines, EntryAt(i)) = {FileRank(i)}

IsErrorBody(body) ==
    /\ Len(body) = 1
    /\ Len(body[1]) >= Len(ERROR_PREFIX)
    /\ SubSeq(body[1], 1, Len(ERROR_PREFIX)) = ERROR_PREFIX

C6_Witness ==
    /\ pc = "done"
    /\ \E p, q \in ListedFiles :
          /\ Len(p) > 1
          /\ \E b \in Bodies(p) : IsErrorBody(b)
          /\ \E b \in Bodies(q) : Len(b) > 1 /\ b[1] = FENCE

(***************************************************************************)
(* C7 as stated: no structure line stands for an entry that bears one of   *)
(* the five reserved names.                                                *)
(***************************************************************************)
ToolFileNames ==
    {SCRIPT_FILE, OUTPUT_FILE, PROJECT_IGNORE_FILE, PROJECT_HEADER_FILE,
     PROJECT_FOOTER_FILE}

C7_NoReservedEntryListed ==
    \A i \in DirLineIndices \cup FileLineIndices :
        TextOf(structure_lines[i]) \notin ToolFileNames

(***************************************************************************)
(* C7 amended: no structure line and no content block stands for a file    *)
(* that bears one of the five reserved names, in the root or below it.     *)
(***************************************************************************)
C7_NoReservedFileListed ==
    /\ \A i \in FileLineIndices : TextOf(structure_lines[i]) \notin ToolFileNames
    /\ \A p \in DOMAIN fs :
          (isfile(p) /\ p[Len(p)] \in ToolFileNames)
              => BlockIndices(content_lines, p) = {}

C7_Witness ==
    /\ pc = "done"
    /\ exists(<<PROJECT_HEADER_FILE>>)
    /\ \E i \in DirLineIndices :
          /\ isfile(EntryAt(i) \o <<OUTPUT_FILE>>)
          /\ \E p \in ListedFiles : Siblings(p, EntryAt(i) \o <<OUTPUT_FILE>>)

(***************************************************************************)
(* C8: a listed file whose getsize, open or read fails has exactly one     *)
(* error line as the body of its block; and a run over the same tree with  *)
(* those files readable yields the same structure lines and the same       *)
(* blocks in the same order, but for the bodies that were error lines.     *)
(***************************************************************************)
FailureHappened(p) == ~fs[p].stat_ok \/ (p \in opened /\ ~fs[p].read_ok)

C8_FailureIsOneErrorLine ==
    /\ \A p \in ListedFiles :
          FailureHappened(p) =>
              /\ Bodies(p) # {}
              /\ \A b \in Bodies(p) : IsErrorBody(b)
    /\ (pc = "done" /\ run = 2 /\ repaired) =>
          LET B1 == Blocks(first_run.content_lines)
              B2 == Blocks(content_lines)
          IN  /\ structure_lines = first_run.structure_lines
              /\ Len(B2) = Len(B1)
              /\ \A k \in 1..Len(B1) :
                    /\ B2[k].label = B1[k].label
                    /\ B2[k].closed = B1[k].closed
                    /\ B2[k].body = B1[k].body \/ IsErrorBody(B1[k].body)

C8_Witness ==
    /\ pc = "done" /\ run = 2 /\ repaired
    /\ \E i \in FileLineIndices :
          /\ \E k \in BlockIndices(first_run.content_lines, EntryAt(i)) :
                IsErrorBody(Blocks(first_run.content_lines)[k].body)
          /\ \E j \in FileLineIndices :
                j > i /\ \E b \in Bodies(EntryAt(j)) : Len(b) > 1 /\ b[1] = FENCE

(***************************************************************************)
(* C9 as stated: in the round-trip scenario the structure list is a.txt,   *)
(* b.txt, c.txt, sub, then d.txt one level in, and the blocks are those of *)
(* a.txt, b.txt, c.txt, sub/d.txt in this order.                           *)
(***************************************************************************)
IsScenario == \A p \in DOMAIN ScenarioTree : exists(p) /\ fs[p] = ScenarioTree[p]

TAB == 9

Line0(name) == <<45, 62, 32>> \o name

Line1(name) == <<TAB, 45, 62, 32>> \o name

Block_a == <<A_TXT \o <<COLON, NL>>, FENCE, HI_TEXT, FENCE, BLOCK_SEPARATOR>>

Block_b == <<B_TXT \o <<COLON, NL>>, EMPTY_FILE_PLACEHOLDER, BLOCK_SEPARATOR>>

Block_c == <<C_TXT \o <<COLON, NL>>, OMITTED_TEXT, BLOCK_SEPARATOR>>

Block_d ==
    <<SUB \o <<SLASH>> \o D_TXT \o <<COLON, NL>>, FENCE, WORLD_TEXT, FENCE,
      BLOCK_SEPARATOR>>

C9_ScenarioAsStated ==
    (IsScenario /\ pc = "done") =>
        /\ structure_lines =
              <<Line0(A_TXT), Line0(B_TXT), Line0(C_TXT), Line0(SUB), Line1(D_TXT)>>
        /\ content_lines = Block_a \o Block_b \o Block_c \o Block_d

(***************************************************************************)
(* C9 amended: in the round-trip scenario the structure list is sub, d.txt *)
(* one level in, then a.txt, b.txt, c.txt, and the blocks are those of     *)
(* sub/d.txt (fenced "world"), a.txt (fenced "hi"), b.txt (empty-file      *)
(* placeholder), c.txt (omission marker) in this order.                    *)
(***************************************************************************)
C9_ScenarioDirectoryFirst ==
    (IsScenario /\ pc = "done") =>
        /\ structure_lines =
              <<Line0(SUB), Line1(D_TXT), Line0(A_TXT), Line0(B_TXT), Line0(C_TXT)>>
        /\ content_lines = Block_d \o Block_a \o Block_b \o Block_c

C9_Witness == IsScenario /\ pc = "done" /\ Len(content_lines) > 0

(***************************************************************************)
(* C10: a second run over the unchanged tree writes the same output, with  *)
(* the same structure lines and content lines, whatever order the listings *)
(* come in and with the first run's output file in place.                  *)
(***************************************************************************)
C10_SecondRunIdentical ==
    (pc = "done" /\ run = 2 /\ ~repaired) => Snapshot = first_run

C10_Witness ==
    /\ pc = "done" /\ run = 2 /\ ~repaired
    /\ cwd = <<>>
    /\ exists(<<PROJECT_FOOTER_FILE>>)
    /\ Cardinality(FileLineIndices) > 1
    /\ DirLineIndices # {}

====
